---- MODULE Spec2Model ----
(***************************************************************************)
(* Model of the compositing engine of composer_utils.py: one call of       *)
(* compose_one_bytes(item_img, template_img, **opts), taken step by step.  *)
(*                                                                         *)
(* An image is a record [mode, w, h, px]; px maps every coordinate         *)
(* <<x, y>> (0-based, x to the right, y downwards) to a tuple of 8-bit     *)
(* band values: <<r,g,b,a>> for RGBA, <<r,g,b>> for RGB, <<l,a>> for LA,   *)
(* <<l>> for L and <<index>> for P.                                        *)
(*                                                                         *)
(* The Pillow primitives the code calls (paste, alpha_composite, point,    *)
(* putalpha, getextrema, convert) are modelled with Pillow's integer       *)
(* arithmetic.  The two resampling filters (LANCZOS resize, GaussianBlur)  *)
(* are modelled as a nondeterministic choice of the produced pixels.       *)
(***************************************************************************)
EXTENDS Integers, Sequences, FiniteSets, TLC

\* ------------------------------------------------------------------ bounds
MaxItemDim == 2      \* items are 1..MaxItemDim pixels wide and high
MaxTplDim == 2       \* small templates are 1..MaxTplDim pixels wide and high
WideDim == 100       \* side of the wide templates (shadow offsets of a pixel and more)

\* --------------------------------------------------------------- arithmetic
Max(a, b) == IF a >= b THEN a ELSE b
Min(a, b) == IF a <= b THEN a ELSE b

\* Pillow ImagingUtils.h: SHIFTFORDIV255(a) = ((a >> 8) + a) >> 8
SHIFTFORDIV255(a) == ((a \div 256) + a) \div 256
\* Pillow ImagingUtils.h: DIV255(a) = SHIFTFORDIV255(a + 128), a/255 rounded
DIV255(a) == SHIFTFORDIV255(a + 128)
\* Pillow ImagingUtils.h: BLEND8(mask, in1, in2)
BLEND8(mask, in1, in2) == DIV255(in1 * (255 - mask) + in2 * mask)

\* Python int(n * r) for n >= 0 and a float r >= 0 given as a fraction
\* num/den: the product truncated.  (For the sizes of this model the
\* double-precision product truncates to the same integer as the exact one.)
IntOfProduct(n, num, den) == (n * num) \div den

\* ------------------------------------------------------------------- images
Coords(w, h) == (0 .. (w - 1)) \X (0 .. (h - 1))

\* Image.new(mode, size, colour)
NewImage(mode, w, h, colour) ==
    [mode |-> mode, w |-> w, h |-> h, px |-> [c \in Coords(w, h) |-> colour]]

\* a two-colour checkerboard: the family the input images are drawn from
Checker(mode, w, h, p, q) ==
    [mode |-> mode, w |-> w, h |-> h,
     px |-> [c \in Coords(w, h) |-> IF (c[1] + c[2]) % 2 = 0 THEN p ELSE q]]

\* palette of the P-mode images of the model: index 1 is the transparent one
Palette == <<(<<0, 0, 0, 0>>), (<<255, 0, 0, 255>>)>>

\* Image.convert("RGBA") of one pixel
ConvertPixel(mode, p) ==
    CASE mode = "RGBA" -> p
      [] mode = "RGB"  -> <<p[1], p[2], p[3], 255>>
      [] mode = "LA"   -> <<p[1], p[1], p[1], p[2]>>
      [] mode = "L"    -> <<p[1], p[1], p[1], 255>>
      [] mode = "P"    -> Palette[p[1]]

\* Image.convert("RGBA")
ConvertRGBA(img) ==
    [mode |-> "RGBA", w |-> img.w, h |-> img.h,
     px |-> [c \in Coords(img.w, img.h) |-> ConvertPixel(img.mode, img.px[c])]]

\* is canvas coordinate c covered by a w x h overlay whose corner is at `at`
Covers(at, w, h, c) ==
    /\ c[1] >= at[1] /\ c[1] < at[1] + w
    /\ c[2] >= at[2] /\ c[2] < at[2] + h

\* the overlay coordinate that lands on canvas coordinate c
Src(at, c) == <<c[1] - at[1], c[2] - at[2]>>

\* the mask value Pillow reads: the alpha band of an RGBA mask, the only
\* band of an L mask
MaskValue(mask, c) == IF mask.mode = "RGBA" THEN mask.px[c][4] ELSE mask.px[c][1]

\* dst.paste(src, at): src is converted to dst's mode and copied, clipped
PasteCopy(dst, src, at) ==
    [dst EXCEPT !.px =
        [c \in Coords(dst.w, dst.h) |->
            IF Covers(at, src.w, src.h, c)
            THEN ConvertPixel(src.mode, src.px[Src(at, c)])
            ELSE dst.px[c]]]

\* dst.paste(src, at, mask): every band of dst is blended towards src's band
\* by the mask value (the alpha band included), clipped to dst
PasteMask(dst, src, at, mask) ==
    [dst EXCEPT !.px =
        [c \in Coords(dst.w, dst.h) |->
            IF Covers(at, src.w, src.h, c)
            THEN [i \in 1 .. Len(dst.px[c]) |->
                    BLEND8(MaskValue(mask, Src(at, c)),
                           dst.px[c][i], src.px[Src(at, c)][i])]
            ELSE dst.px[c]]]

\* Pillow AlphaComposite.c, one pixel (PRECISION_BITS = 7)
CompositePixel(d, s) ==
    IF s[4] = 0 THEN d
    ELSE LET blend   == d[4] * (255 - s[4])
             outa255 == s[4] * 255 + blend
             coef1   == (s[4] * 255 * 255 * 128) \div outa255
             coef2   == 255 * 128 - coef1
             Band(i) == SHIFTFORDIV255(s[i] * coef1 + d[i] * coef2 + 128 * 128)
                           \div 128
         IN  <<Band(1), Band(2), Band(3), SHIFTFORDIV255(outa255 + 128)>>

\* Image.alpha_composite(dst, src): src over dst, images of the same size
alpha_composite(dst, src) ==
    [dst EXCEPT !.px = [c \in Coords(dst.w, dst.h) |->
                            CompositePixel(dst.px[c], src.px[c])]]

\* img.getchannel("A") / img.split()[3]
AlphaChannel(img) ==
    [mode |-> "L", w |-> img.w, h |-> img.h,
     px |-> [c \in Coords(img.w, img.h) |-> <<img.px[c][4]>>]]

\* ------------------------------------------------------- composer_utils.py
\* faulty variant: preset "off" keeps an opacity
SHADOW_PRESETS_dimOff ==
    [off    |-> [blur |-> 0,  alpha |-> 100, offset_x |-> 0,  offset_y |-> 0],
     light  |-> [blur |-> 6,  alpha |-> 100, offset_x |-> 6,  offset_y |-> 6],
     medium |-> [blur |-> 14, alpha |-> 160, offset_x |-> 12, offset_y |-> 12],
     strong |-> [blur |-> 24, alpha |-> 220, offset_x |-> 18, offset_y |-> 18]]

SHADOW_PRESETS ==
    [off    |-> [blur |-> 0,  alpha |-> 0,   offset_x |-> 0,  offset_y |-> 0],
     light  |-> [blur |-> 6,  alpha |-> 100, offset_x |-> 6,  offset_y |-> 6],
     medium |-> [blur |-> 14, alpha |-> 160, offset_x |-> 12, offset_y |-> 12],
     strong |-> [blur |-> 24, alpha |-> 220, offset_x |-> 18, offset_y |-> 18]]
\* offset_x and offset_y are held in thousandths (0.006 is 6)
OffsetDen == 1000

\* SHADOW_PRESETS.get(name, SHADOW_PRESETS["off"])
GetPreset(name) ==
    IF name \in DOMAIN SHADOW_PRESETS THEN SHADOW_PRESETS[name]
    ELSE SHADOW_PRESETS["off"]

ensure_rgba(img) ==
    IF img.mode = "RGBA" THEN img
    ELSE IF img.mode \in {"LA", "P"} THEN ConvertRGBA(img)
    ELSE IF img.mode = "RGB"
         THEN PasteCopy(NewImage("RGBA", img.w, img.h, <<0, 0, 0, 0>>),
                        img, <<0, 0>>)
    ELSE ConvertRGBA(img)

\* a.getextrema(): None for an image without pixels, else <<min, max>>
GetExtrema(band) ==
    IF band.w * band.h = 0 THEN <<>>
    ELSE LET vals == {band.px[c][1] : c \in Coords(band.w, band.h)}
         IN  <<CHOOSE v \in vals : \A u \in vals : v <= u,
               CHOOSE v \in vals : \A u \in vals : v >= u>>

\* faulty variant: any uniform alpha channel counts as useless
has_useful_alpha_uniform(img) ==
    LET extrema == GetExtrema(AlphaChannel(ensure_rgba(img)))
    IN  IF extrema = <<>> THEN FALSE ELSE extrema[1] # extrema[2]

has_useful_alpha(img) ==
    LET extrema == GetExtrema(AlphaChannel(ensure_rgba(img)))
    IN  IF extrema = <<>> THEN FALSE
        ELSE /\ ~(extrema[1] = 255 /\ extrema[2] = 255)
             /\ ~(extrema[1] = 0 /\ extrema[2] = 0)

AnchorNames ==
    {"center", "top", "bottom", "left", "right",
     "top-left", "top-right", "bottom-left", "bottom-right"}

\* faulty variant: the halves are rounded towards zero instead of down
compute_anchor_position_trunc(bg_size, fg_size, anchor) ==
    LET W == bg_size[1]
        H == bg_size[2]
        w == fg_size[1]
        h == fg_size[2]
        Half(n) == IF n >= 0 THEN n \div 2 ELSE -((-n) \div 2)
        positions ==
            [a \in AnchorNames |->
                CASE a = "center"       -> <<Half(W - w), Half(H - h)>>
                  [] a = "top"          -> <<Half(W - w), 0>>
                  [] a = "bottom"       -> <<Half(W - w), H - h>>
                  [] a = "left"         -> <<0, Half(H - h)>>
                  [] a = "right"        -> <<W - w, Half(H - h)>>
                  [] a = "top-left"     -> <<0, 0>>
                  [] a = "top-right"    -> <<W - w, 0>>
                  [] a = "bottom-left"  -> <<0, H - h>>
                  [] a = "bottom-right" -> <<W - w, H - h>>]
    IN  IF anchor \in DOMAIN positions THEN positions[anchor]
        ELSE positions["center"]

compute_anchor_position(bg_size, fg_size, anchor) ==
    LET W == bg_size[1]
        H == bg_size[2]
        w == fg_size[1]
        h == fg_size[2]
        positions ==
            [a \in AnchorNames |->
                CASE a = "center"       -> <<(W - w) \div 2, (H - h) \div 2>>
                  [] a = "top"          -> <<(W - w) \div 2, 0>>
                  [] a = "bottom"       -> <<(W - w) \div 2, H - h>>
                  [] a = "left"         -> <<0, (H - h) \div 2>>
                  [] a = "right"        -> <<W - w, (H - h) \div 2>>
                  [] a = "top-left"     -> <<0, 0>>
                  [] a = "top-right"    -> <<W - w, 0>>
                  [] a = "bottom-left"  -> <<0, H - h>>
                  [] a = "bottom-right" -> <<W - w, H - h>>]
    IN  IF anchor \in DOMAIN positions THEN positions[anchor]
        ELSE positions["center"]

\* faulty variant: only negative ratios are clamped
EffectiveRatio_strict(ratio) == IF ratio < 0 THEN 10 ELSE ratio

\* lines 56-58: the ratio (in tenths) the call works with
EffectiveRatio(ratio) == IF ratio <= 0 THEN 10 ELSE ratio
RatioDen == 10

\* line 60: new_size
NewSize(w, h, ratio) ==
    <<Max(1, IntOfProduct(w, ratio, RatioDen)),
      Max(1, IntOfProduct(h, ratio, RatioDen))>>

\* lines 95-96: alpha_blurred.point(lambda p: int(p * scale))
ScaleAlpha(band, alpha) ==
    [band EXCEPT !.px =
        [c \in Coords(band.w, band.h) |->
            <<IntOfProduct(band.px[c][1], Max(0, Min(255, alpha)), 255)>>]]

\* lines 98-99: a transparent black image that gets alpha_scaled as its alpha
ShadowImage(alpha_scaled) ==
    [mode |-> "RGBA", w |-> alpha_scaled.w, h |-> alpha_scaled.h,
     px |-> [c \in Coords(alpha_scaled.w, alpha_scaled.h) |->
                <<0, 0, 0, alpha_scaled.px[c][1]>>]]

\* faulty variant: the offsets are rounded to the nearest pixel
ShadowOffset_rounded(W, H, preset) ==
    <<(2 * W * preset.offset_x + OffsetDen) \div (2 * OffsetDen),
      (2 * H * preset.offset_y + OffsetDen) \div (2 * OffsetDen)>>

\* lines 101-102: dx, dy
ShadowOffset(W, H, preset) ==
    <<IntOfProduct(W, preset.offset_x, OffsetDen),
      IntOfProduct(H, preset.offset_y, OffsetDen)>>

\* lines 72-73, 76-77, 104-105, 108-109: a transparent layer of the canvas's
\* size with img pasted at `at` through its own alpha
LayerOf(canvas, img, at) ==
    PasteMask(NewImage("RGBA", canvas.w, canvas.h, <<0, 0, 0, 0>>), img, at, img)

\* faulty variant: the background of the flattening is black
FlattenOnWhite_black(img) ==
    PasteMask(NewImage("RGB", img.w, img.h, <<0, 0, 0>>),
              img, <<0, 0>>, AlphaChannel(img))

\* lines 116-119: flatten onto white for JPEG
FlattenOnWhite(img) ==
    PasteMask(NewImage("RGB", img.w, img.h, <<255, 255, 255>>),
              img, <<0, 0>>, AlphaChannel(img))

\* opts.get(key, default)
OptGet(o, key, default) == IF key \in DOMAIN o THEN o[key] ELSE default

\* str.upper() on the format names of the model
Upper(s) ==
    CASE s = "jpeg" -> "JPEG"
      [] s = "png"  -> "PNG"
      [] OTHER      -> s

\* ------------------------------------------------------------------- inputs
Red   == <<255, 0, 0, 255>>      \* opaque
Clear == <<0, 0, 0, 0>>          \* fully transparent
Haze  == <<0, 0, 255, 128>>      \* half transparent
Sky   == <<0, 128, 255, 255>>    \* opaque
Tint  == <<0, 255, 0, 128>>      \* half transparent

ItemContents == {<<Red, Red>>, <<Haze, Haze>>, <<Red, Clear>>}
TplContents  == {<<Sky, Clear>>}

ItemImages ==
    {Checker("RGBA", w, h, pq[1], pq[2]) :
        w \in 1 .. MaxItemDim, h \in 1 .. MaxItemDim, pq \in ItemContents}
    \cup {NewImage("RGBA", 1, 1, Clear),
          NewImage("RGB", 1, 1, <<255, 0, 0>>),
          Checker("LA", 2, 1, <<90, 255>>, <<90, 0>>),
          NewImage("L", 1, 1, <<90>>),
          Checker("P", 1, 2, <<2>>, <<1>>)}

SmallTemplates ==
    {Checker("RGBA", w, h, pq[1], pq[2]) :
        w \in 1 .. MaxTplDim, h \in 1 .. MaxTplDim, pq \in TplContents}
    \cup {NewImage("RGBA", 1, 1, Tint),
          NewImage("RGB", 2, 1, <<0, 128, 255>>)}

WideTemplates ==
    {NewImage("RGB", WideDim, 1, <<0, 128, 255>>),
     NewImage("RGB", 1, WideDim, <<0, 128, 255>>)}

WideItems == {Checker("RGBA", 2, 1, Red, Clear), NewImage("RGBA", 1, 1, Haze)}

Anchors == AnchorNames \cup {"middle"}
Ratios  == {-10, 0, 7, 10, 17}            \* resize_ratio in tenths
Presets == {"off", "light", "medium", "strong", "heavy"}
Modes   == {"normal", "frame"}
Formats == {"jpeg", "PNG", "WEBP"}
SmallFormats == {"jpeg", "WEBP"}

AllOpts ==
    [anchor : Anchors, resize_ratio : Ratios, shadow_preset : Presets,
     composition_mode : Modes, out_format : Formats]

\* -------------------------------------------------------------------- state
VARIABLES
    item_img,        \* argument item_img
    template_img,    \* argument template_img
    opts,            \* argument **opts
    pc,              \* position of the call
    item_rgba,       \* local item_rgba
    template_rgba,   \* local template_rgba
    pos,             \* locals x, y
    item_has_alpha,  \* local item_has_alpha
    final_img,       \* local final_img
    painted,         \* the layers composited onto final_img, in order
    out_img,         \* the image handed to final_img.save(...)
    ext,             \* local ext
    ss,              \* main.py: st.session_state
    item_files,      \* main.py: the files held by the item uploader
    template_files,  \* main.py: the files held by the template uploader
    shown,           \* main.py: what the download section rendered last
    rerun_pending    \* main.py: st.rerun() was called, the script restarts

composeVars == <<item_img, template_img, opts, pc, item_rgba, template_rgba,
                 pos, item_has_alpha, final_img, painted, out_img, ext>>
uiVars == <<ss, item_files, template_files, shown, rerun_pending>>
vars == <<composeVars, uiVars>>

\* Python None and a present value
None == <<>>
Some(x) == <<x>>

\* main.py lines 231-248: the defaults of the session state (resize_ratio
\* in tenths)
SessionDefaults ==
    [anchor |-> "center", resize_ratio |-> 10, shadow_preset |-> "off",
     preview_list |-> <<>>, preview_info |-> <<>>, zip_cache |-> None,
     item_uploader_key |-> 0, template_uploader_key |-> 0,
     cached_analysis |-> None, last_file_sig |-> None,
     last_settings_sig |-> None, needs_preview_regen |-> FALSE]

\* the download section before the script has reached it
NothingShown == [zip |-> None, button |-> FALSE]

\* the page is not in use while a single call of compose_one_bytes is followed
UiIdle ==
    /\ ss = SessionDefaults
    /\ item_files = <<>>
    /\ template_files = <<>>
    /\ shown = NothingShown
    /\ rerun_pending = FALSE

NoImage == NewImage("none", 0, 0, <<>>)

InitLocals ==
    /\ pc = "called"
    /\ item_rgba = NoImage
    /\ template_rgba = NoImage
    /\ pos = <<0, 0>>
    /\ item_has_alpha = FALSE
    /\ final_img = NoImage
    /\ painted = <<>>
    /\ out_img = NoImage
    /\ ext = ""

Init ==
    /\ \/ /\ item_img \in ItemImages
          /\ template_img \in SmallTemplates
          /\ opts \in {o \in AllOpts : o.out_format \in SmallFormats}
       \/ /\ item_img \in WideItems
          /\ template_img \in WideTemplates
          /\ opts \in {o \in AllOpts : o.resize_ratio = 10 /\ o.out_format = "PNG"}
       \/ /\ item_img \in WideItems
          /\ template_img \in WideTemplates
          /\ opts = <<>>
    /\ InitLocals
    /\ UiIdle

\* ------------------------------------------------------------------ actions
Ratio == EffectiveRatio(OptGet(opts, "resize_ratio", 10))

\* Image.resize(new_size, LANCZOS): a copy when the size does not change,
\* else resampled pixels
Resized(img, new_size) ==
    IF new_size = <<img.w, img.h>> THEN {img}
    ELSE {Checker("RGBA", new_size[1], new_size[2], pq[1], pq[2]) :
            pq \in ItemContents}

\* alpha_mask.filter(GaussianBlur(radius)): values between the mask's extrema
Blurred(band) ==
    LET e == GetExtrema(band)
    IN  {Checker("L", band.w, band.h, <<p>>, <<q>>) :
            p \in {e[1], e[2]}, q \in {e[1], e[2]}}

\* lines 63-67
Place(item) ==
    /\ pos' = compute_anchor_position(
                  <<ensure_rgba(template_img).w, ensure_rgba(template_img).h>>,
                  <<item.w, item.h>>, OptGet(opts, "anchor", "center"))
    /\ item_has_alpha' = has_useful_alpha(item)

\* lines 53-67 when ratio == 1.0 after the clamp
PrepareKeep ==
    /\ pc = "called"
    /\ Ratio = 10
    /\ item_rgba' = ensure_rgba(item_img)
    /\ template_rgba' = ensure_rgba(template_img)
    /\ Place(item_rgba')
    /\ pc' = "placed"
    /\ UNCHANGED uiVars
    /\ UNCHANGED <<item_img, template_img, opts, final_img, painted, out_img, ext>>

\* lines 53-67 when ratio != 1.0
PrepareResize ==
    /\ pc = "called"
    /\ Ratio # 10
    /\ LET rgba == ensure_rgba(item_img)
       IN  item_rgba' \in Resized(rgba, NewSize(rgba.w, rgba.h, Ratio))
    /\ template_rgba' = ensure_rgba(template_img)
    /\ Place(item_rgba')
    /\ pc' = "placed"
    /\ UNCHANGED uiVars
    /\ UNCHANGED <<item_img, template_img, opts, final_img, painted, out_img, ext>>

Mode == OptGet(opts, "composition_mode", "normal")
Preset == GetPreset(OptGet(opts, "shadow_preset", "off"))

\* faulty variant: the item is composited under the canvas instead of over it
ItemOver_under(canvas, item, at) ==
    alpha_composite(LayerOf(canvas, item, at), canvas)

\* lines 108-110: the item composited over the canvas
ItemOver(canvas, item, at) == alpha_composite(canvas, LayerOf(canvas, item, at))

\* faulty variant: the frame branch draws the shadow of normal mode under the item
FrameCompose_shadowed(item, template, at, o) ==
    LET white    == NewImage("RGBA", template.w, template.h,
                             <<255, 255, 255, 255>>)
        preset   == GetPreset(OptGet(o, "shadow_preset", "off"))
        shadow   == ShadowImage(ScaleAlpha(AlphaChannel(item), preset.alpha))
        shaded   == IF preset.alpha > 0
                    THEN alpha_composite(white, LayerOf(white, shadow, at))
                    ELSE white
        withItem == alpha_composite(shaded, LayerOf(shaded, item, at))
    IN  alpha_composite(withItem, LayerOf(withItem, template, <<0, 0>>))

\* faulty variant: the frame branch paints the template first and the item on top
FrameCompose_itemOnTop(item, template, at, o) ==
    LET white   == NewImage("RGBA", template.w, template.h,
                            <<255, 255, 255, 255>>)
        withTpl == alpha_composite(white, LayerOf(white, template, <<0, 0>>))
    IN  alpha_composite(withTpl, LayerOf(withTpl, item, at))

\* lines 70-78: the frame branch, run with the options o
FrameCompose(item, template, at, o) ==
    LET white    == NewImage("RGBA", template.w, template.h,
                             <<255, 255, 255, 255>>)
        withItem == alpha_composite(white, LayerOf(white, item, at))
    IN  alpha_composite(withItem, LayerOf(withItem, template, <<0, 0>>))

\* lines 69-78
ComposeFrame ==
    /\ pc = "placed"
    /\ Mode = "frame"
    /\ final_img' = FrameCompose(item_rgba, template_rgba, pos, opts)
    /\ painted' = <<[layer |-> "item", at |-> pos],
                    [layer |-> "template", at |-> <<0, 0>>]>>
    /\ pc' = "flat"
    /\ UNCHANGED uiVars
    /\ UNCHANGED <<item_img, template_img, opts, item_rgba, template_rgba, pos,
                   item_has_alpha, out_img, ext>>

\* lines 80-86 when no shadow is drawn
ShadowSkip ==
    /\ pc = "placed"
    /\ Mode # "frame"
    /\ ~(item_has_alpha /\ Preset.alpha > 0)
    /\ final_img' = template_rgba
    /\ painted' = <<>>
    /\ pc' = "shadowed"
    /\ UNCHANGED uiVars
    /\ UNCHANGED <<item_img, template_img, opts, item_rgba, template_rgba, pos,
                   item_has_alpha, out_img, ext>>

\* lines 80-106 when the shadow is drawn
ShadowPaint ==
    /\ pc = "placed"
    /\ Mode # "frame"
    /\ item_has_alpha
    /\ Preset.alpha > 0
    /\ \E alpha_blurred \in
            (IF Preset.blur > 0 THEN Blurred(AlphaChannel(item_rgba))
             ELSE {AlphaChannel(item_rgba)}) :
         LET shadow_rgba == ShadowImage(ScaleAlpha(alpha_blurred, Preset.alpha))
             d  == ShadowOffset(template_rgba.w, template_rgba.h, Preset)
             at == <<pos[1] + d[1], pos[2] + d[2]>>
         IN  /\ final_img' = alpha_composite(template_rgba,
                                 LayerOf(template_rgba, shadow_rgba, at))
             /\ painted' = <<[layer |-> "shadow", at |-> at]>>
    /\ pc' = "shadowed"
    /\ UNCHANGED uiVars
    /\ UNCHANGED <<item_img, template_img, opts, item_rgba, template_rgba, pos,
                   item_has_alpha, out_img, ext>>

\* lines 108-110
PaintItem ==
    /\ pc = "shadowed"
    /\ final_img' = ItemOver(final_img, item_rgba, pos)
    /\ painted' = Append(painted, [layer |-> "item", at |-> pos])
    /\ pc' = "flat"
    /\ UNCHANGED uiVars
    /\ UNCHANGED <<item_img, template_img, opts, item_rgba, template_rgba, pos,
                   item_has_alpha, out_img, ext>>

\* faulty variant: only PNG is encoded as PNG, every other name as JPEG
OutFormat_strict ==
    IF Upper(OptGet(opts, "out_format", "JPEG")) = "PNG" THEN "PNG" ELSE "JPEG"

\* line 113
OutFormat == Upper(OptGet(opts, "out_format", "JPEG"))

\* lines 112-123
EncodeJPEG ==
    /\ pc = "flat"
    /\ OutFormat = "JPEG"
    /\ out_img' = IF final_img.mode = "RGBA" THEN FlattenOnWhite(final_img)
                  ELSE final_img
    /\ ext' = "jpg"
    /\ pc' = "done"
    /\ UNCHANGED uiVars
    /\ UNCHANGED <<item_img, template_img, opts, item_rgba, template_rgba, pos,
                   item_has_alpha, final_img, painted>>

\* lines 112-114, 124-126
EncodePNG ==
    /\ pc = "flat"
    /\ OutFormat # "JPEG"
    /\ out_img' = final_img
    /\ ext' = "png"
    /\ pc' = "done"
    /\ UNCHANGED uiVars
    /\ UNCHANGED <<item_img, template_img, opts, item_rgba, template_rgba, pos,
                   item_has_alpha, final_img, painted>>

Next ==
    \/ PrepareKeep
    \/ PrepareResize
    \/ ComposeFrame
    \/ ShadowSkip
    \/ ShadowPaint
    \/ PaintItem
    \/ EncodeJPEG
    \/ EncodePNG

Spec == Init /\ [][Next]_vars

\* ----------------------------------------------------------------- claims
\* q is n/den rounded towards minus infinity (den > 0)
IsFloorOf(q, n, den) == den * q <= n /\ n < den * (q + 1)

\* q is n/den rounded to a nearest integer (den > 0)
IsRoundOf(q, n, den) == 2 * den * q - den <= 2 * n /\ 2 * n <= 2 * den * q + den

Given(key, default) == OptGet(opts, key, default)

LeftAnchors   == {"left", "top-left", "bottom-left"}
RightAnchors  == {"right", "top-right", "bottom-right"}
TopAnchors    == {"top", "top-left", "top-right"}
BottomAnchors == {"bottom", "bottom-left", "bottom-right"}

\* C1: once the item is placed, (x, y) is the offset of the anchor table for
\* the template size (W, H) and the (resized) item size (w, h): 0 on the
\* left/top, W-w / H-h on the right/bottom, floor((W-w)/2) / floor((H-h)/2)
\* in the middle and for every unknown name, with no clamping.
C1_AnchorTable ==
    pc # "called" =>
        LET W == template_rgba.w
            H == template_rgba.h
            w == item_rgba.w
            h == item_rgba.h
            a == Given("anchor", "center")
        IN  /\ IF a \in LeftAnchors THEN pos[1] = 0
               ELSE IF a \in RightAnchors THEN pos[1] = W - w
               ELSE IsFloorOf(pos[1], W - w, 2)
            /\ IF a \in TopAnchors THEN pos[2] = 0
               ELSE IF a \in BottomAnchors THEN pos[2] = H - h
               ELSE IsFloorOf(pos[2], H - h, 2)

\* C1 witness: an unknown anchor name with an item one pixel wider than the
\* template: the offset is floor(-1/2) = -1, negative and not clamped
C1_Witness ==
    /\ pc = "placed"
    /\ Given("anchor", "center") = "middle"
    /\ template_rgba.w - item_rgba.w = -1
    /\ pos[1] = -1

AllAlpha(img, v) == \A c \in Coords(img.w, img.h) : img.px[c][4] = v

\* C2: the alpha analysis of the (resized) item is false when its alpha is
\* uniformly 0 or uniformly 255 and true for every other alpha channel; the
\* same holds of has_useful_alpha on the raw item, whatever its mode.
C2_UsefulAlpha ==
    /\ pc # "called" =>
          item_has_alpha = ~(AllAlpha(item_rgba, 0) \/ AllAlpha(item_rgba, 255))
    /\ has_useful_alpha(item_img) =
          ~(AllAlpha(ConvertRGBA(item_img), 0) \/ AllAlpha(ConvertRGBA(item_img), 255))

\* C2 witness: a uniformly half-transparent item is found to have useful alpha
C2_Witness ==
    /\ pc = "placed"
    /\ AllAlpha(item_rgba, 128)
    /\ item_has_alpha

\* the canvas of normal mode with the shadow step left out: the template
\* copy with the item composited at the anchor offset
WithoutShadow == alpha_composite(template_rgba,
                                 LayerOf(template_rgba, item_rgba, pos))

\* C3: in normal mode with preset "off" the flattened canvas is pixel for
\* pixel the canvas composed without the shadow step.
C3_OffIsNoShadow ==
    (/\ pc \in {"flat", "done"}
     /\ Mode # "frame"
     /\ Given("shadow_preset", "off") = "off") => final_img = WithoutShadow

\* C3 witness: a finished normal-mode composition with preset "off" of an
\* item that has useful alpha (the item a shadow would be drawn for)
C3_Witness ==
    /\ pc = "flat"
    /\ Mode = "normal"
    /\ "shadow_preset" \in DOMAIN opts
    /\ opts.shadow_preset = "off"
    /\ item_has_alpha
    /\ final_img = WithoutShadow

\* the shadow is to be drawn: useful alpha and an alpha scale above 0
ShadowDue ==
    /\ ~(AllAlpha(item_rgba, 0) \/ AllAlpha(item_rgba, 255))
    /\ Preset.alpha > 0

ItemLayerAt == [layer |-> "item", at |-> pos]

\* C4: in normal mode the layers composited onto the template copy are the
\* shadow at (x + dx, y + dy) followed by the item at (x, y) when the item
\* has useful alpha and the preset's alpha scale is above 0, and the item at
\* (x, y) alone otherwise; every canvas pixel under an opaque item pixel
\* ends up as that item pixel, so the shadow never covers the item.
C4_ShadowUnderItem ==
    (pc \in {"flat", "done"} /\ Mode # "frame") =>
        /\ IF ShadowDue
           THEN LET d == ShadowOffset(template_rgba.w, template_rgba.h, Preset)
                IN  painted = <<[layer |-> "shadow",
                                 at |-> <<pos[1] + d[1], pos[2] + d[2]>>],
                                ItemLayerAt>>
           ELSE painted = <<ItemLayerAt>>
        /\ \A c \in Coords(final_img.w, final_img.h) :
              (/\ Covers(pos, item_rgba.w, item_rgba.h, c)
               /\ item_rgba.px[Src(pos, c)][4] = 255)
              => final_img.px[c] = item_rgba.px[Src(pos, c)]

\* C4 witness: a shadow was composited at a non-zero offset and then the
\* item, one of whose opaque pixels lies on the canvas
C4_Witness ==
    /\ pc = "flat"
    /\ Mode = "normal"
    /\ Len(painted) = 2
    /\ painted[1].layer = "shadow"
    /\ painted[1].at # pos
    /\ painted[2] = ItemLayerAt
    /\ \E c \in Coords(final_img.w, final_img.h) :
          /\ Covers(pos, item_rgba.w, item_rgba.h, c)
          /\ item_rgba.px[Src(pos, c)][4] = 255

\* the options with the shadow preset replaced by p
WithPreset(o, p) ==
    [k \in DOMAIN o \cup {"shadow_preset"} |->
        IF k = "shadow_preset" THEN p ELSE o[k]]

\* C5: in frame mode no shadow layer is composited, and the frame branch run
\* with any other shadow preset yields the flattened image of this call.
C5_FrameIgnoresShadow ==
    (pc \in {"flat", "done"} /\ Mode = "frame") =>
        /\ \A i \in 1 .. Len(painted) : painted[i].layer # "shadow"
        /\ \A p \in Presets :
              FrameCompose(item_rgba, template_rgba, pos, WithPreset(opts, p))
                  = final_img

\* C5 witness: a finished frame-mode composition asked for with preset
\* "strong" of an item that has useful alpha
C5_Witness ==
    /\ pc = "flat"
    /\ Mode = "frame"
    /\ Given("shadow_preset", "off") = "strong"
    /\ item_has_alpha

\* C6: in frame mode the item is painted first and the template on top; a
\* pixel where the template is opaque is the template's pixel, a pixel where
\* the template is fully transparent and an opaque item pixel lands is the
\* item's pixel.
C6_FrameOccludes ==
    (pc \in {"flat", "done"} /\ Mode = "frame") =>
        /\ painted = <<ItemLayerAt, [layer |-> "template", at |-> <<0, 0>>]>>
        /\ \A c \in Coords(final_img.w, final_img.h) :
              /\ template_rgba.px[c][4] = 255
                    => final_img.px[c] = template_rgba.px[c]
              /\ (/\ template_rgba.px[c][4] = 0
                  /\ Covers(pos, item_rgba.w, item_rgba.h, c)
                  /\ item_rgba.px[Src(pos, c)][4] = 255)
                    => final_img.px[c] = item_rgba.px[Src(pos, c)]

\* C6 witness: an opaque item pixel under an opaque template pixel of another
\* colour, and another opaque item pixel seen through a transparent one
C6_Witness ==
    /\ pc = "flat"
    /\ Mode = "frame"
    /\ \E c \in Coords(final_img.w, final_img.h) :
          /\ template_rgba.px[c][4] = 255
          /\ Covers(pos, item_rgba.w, item_rgba.h, c)
          /\ item_rgba.px[Src(pos, c)][4] = 255
          /\ item_rgba.px[Src(pos, c)] # template_rgba.px[c]
    /\ \E c \in Coords(final_img.w, final_img.h) :
          /\ template_rgba.px[c][4] = 0
          /\ Covers(pos, item_rgba.w, item_rgba.h, c)
          /\ item_rgba.px[Src(pos, c)][4] = 255

\* n is max(1, floor(size * ratio)) for a ratio given in tenths
IsScaledDim(n, size, ratio) ==
    IF size * ratio < RatioDen THEN n = 1 ELSE IsFloorOf(n, size * ratio, RatioDen)

\* C7: with ratio 1.0, 0 or a negative ratio the item the call works with is
\* the normalised item itself; with any other ratio its width and height are
\* floor(width * ratio) and floor(height * ratio), at least 1.
C7_ResizeRatio ==
    pc # "called" =>
        LET r == Given("resize_ratio", 10)
        IN  IF r <= 0 \/ r = 10
            THEN item_rgba = ensure_rgba(item_img)
            ELSE /\ IsScaledDim(item_rgba.w, item_img.w, r)
                 /\ IsScaledDim(item_rgba.h, item_img.h, r)

\* C7 witness: ratio 0 on a 2x2 item leaves it 2x2
C7_Witness ==
    /\ pc = "placed"
    /\ Given("resize_ratio", 10) = 0
    /\ item_img.w = 2 /\ item_img.h = 2
    /\ item_rgba = item_img

\* C7 witness of the resizing case: ratio 1.7 turns a 2x1 item into 3x1
\* (floor of 3.4, floor of 1.7)
C7_WitnessResized ==
    /\ pc = "placed"
    /\ Given("resize_ratio", 10) = 17
    /\ item_img.w = 2 /\ item_img.h = 1
    /\ item_rgba.w = 3 /\ item_rgba.h = 1

JpegNames == {"JPEG", "jpeg"}

\* C8: when the output format is JPEG the extension is "jpg" and the image
\* handed to the encoder is RGB, each band the nearest integer to
\* (colour * alpha + 255 * (255 - alpha)) / 255 of the flattened image's
\* pixel: white where it is fully transparent, its colour where it is opaque.
C8_JpegOnWhite ==
    (pc = "done" /\ Given("out_format", "JPEG") \in JpegNames) =>
        /\ ext = "jpg"
        /\ out_img.mode = "RGB"
        /\ out_img.w = final_img.w /\ out_img.h = final_img.h
        /\ \A c \in Coords(final_img.w, final_img.h) :
              LET f == final_img.px[c]
                  o == out_img.px[c]
              IN  /\ Len(o) = 3
                  /\ \A i \in 1 .. 3 :
                        IsRoundOf(o[i], f[i] * f[4] + 255 * (255 - f[4]), 255)
                  /\ f[4] = 0 => o = <<255, 255, 255>>
                  /\ f[4] = 255 => o = <<f[1], f[2], f[3]>>

\* C8 witness: a JPEG output with a fully transparent pixel turned white, an
\* opaque one and a half-transparent one
C8_Witness ==
    /\ pc = "done"
    /\ ext = "jpg"
    /\ \E c \in Coords(final_img.w, final_img.h) :
          final_img.px[c][4] = 0 /\ out_img.px[c] = <<255, 255, 255>>
    /\ \E c \in Coords(final_img.w, final_img.h) :
          final_img.px[c][4] = 255 /\ out_img.px[c] # <<255, 255, 255>>
    /\ \E c \in Coords(final_img.w, final_img.h) :
          final_img.px[c][4] \notin {0, 255}

\* C9: a composed call can always be encoded; for PNG and for every format
\* name that is not JPEG the encoder gets the flattened RGBA image unchanged
\* and the extension is "png"; the extension is "jpg" only for JPEG.
C9_PngByDefault ==
    /\ pc = "flat" => ENABLED (EncodeJPEG \/ EncodePNG)
    /\ pc = "done" =>
          /\ Given("out_format", "JPEG") \notin JpegNames =>
                /\ ext = "png"
                /\ out_img = final_img
                /\ out_img.mode = "RGBA"
          /\ ext = "jpg" => Given("out_format", "JPEG") \in JpegNames

\* C9 witness: the unrecognised format "WEBP" encoded as PNG with a
\* half-transparent pixel kept
C9_Witness ==
    /\ pc = "done"
    /\ Given("out_format", "JPEG") = "WEBP"
    /\ ext = "png"
    /\ \E c \in Coords(out_img.w, out_img.h) : out_img.px[c][4] \notin {0, 255}

\* the offset of the composited shadow from the item's position
ShadowShift == <<painted[1].at[1] - pos[1], painted[1].at[2] - pos[2]>>
ShadowPainted == Len(painted) >= 1 /\ painted[1].layer = "shadow"

\* C10 as stated: the shadow offset is the product of the template size and
\* the preset's offset rounded to the nearest integer.
C10_RoundedOffset ==
    ShadowPainted =>
        /\ IsRoundOf(ShadowShift[1], template_rgba.w * Preset.offset_x, OffsetDen)
        /\ IsRoundOf(ShadowShift[2], template_rgba.h * Preset.offset_y, OffsetDen)

\* C10 amended: the shadow offset is the product of the template size and
\* the preset's offset with its fraction dropped (int()).
C10_TruncatedOffset ==
    ShadowPainted =>
        /\ IsFloorOf(ShadowShift[1], template_rgba.w * Preset.offset_x, OffsetDen)
        /\ IsFloorOf(ShadowShift[2], template_rgba.h * Preset.offset_y, OffsetDen)

\* C10 witness: a shadow composited one pixel to the right of the item on a
\* template whose width times the offset is at least 1
C10_Witness ==
    /\ ShadowPainted
    /\ template_rgba.w * Preset.offset_x >= OffsetDen
    /\ ShadowShift = <<1, 0>>

\* ------------------------------------------------------------------ main.py
\* The page script of main.py after the access code has been accepted.  One
\* action is one run of the script, started by one change of one widget.
\* A composition in the batch is followed only up to its outcome: a result
\* with the options it was called with, or an exception.

MaxItems == 1        \* files the item uploader holds at most
MaxTemplates == 2    \* files the template uploader holds at most
MaxClears == 1       \* presses of each clear button

\* CONFIG["MAX_PREVIEW_COUNT"], CONFIG["OUTPUT_FORMAT"], CONFIG["JPEG_QUALITY"]
MAX_PREVIEW_COUNT == 50
OUTPUT_FORMAT == "JPEG"
JPEG_QUALITY == 95

\* Path(name).stem and Path(name).suffix of the file names of the model
NameParts ==
    [n \in {"a.png", "b.jpg", "T.jpg", "F.PNG", "t 1.jpg"} |->
        CASE n = "a.png"   -> <<"a", ".png">>
          [] n = "b.jpg"   -> <<"b", ".jpg">>
          [] n = "T.jpg"   -> <<"T", ".jpg">>
          [] n = "F.PNG"   -> <<"F", ".PNG">>
          [] n = "t 1.jpg" -> <<"t 1", ".jpg">>]
Stem(name) == NameParts[name][1]
Suffix(name) == NameParts[name][2]

\* str.lower() on the suffixes of the model
Lower(x) == IF x = ".PNG" THEN ".png" ELSE x

\* re.compile(r'^[a-zA-Z0-9_-]+$').match(stem) on the stems of the model
PatternMatch(stem) == stem \in {"a", "b", "T", "F"}

\* an uploaded file: its name and the picture PILImage.open reads from it
\* (every file of the model can be opened when the combinations are analysed)
ItemFiles ==
    {[name |-> "a.png", img |-> NewImage("RGBA", 1, 1, Haze)],
     [name |-> "a.png", img |-> Checker("RGBA", 2, 1, Red, Clear)],
     [name |-> "b.jpg", img |-> NewImage("RGB", 1, 1, <<255, 0, 0>>)]}

TemplateFiles ==
    {[name |-> "T.jpg", img |-> NewImage("RGB", 1, 1, <<0, 128, 255>>)],
     [name |-> "F.PNG", img |-> Checker("RGBA", 2, 1, Sky, Clear)],
     [name |-> "t 1.jpg", img |-> NewImage("RGB", 1, 1, <<0, 128, 255>>)]}

\* the settings the select boxes are put to: the defaults and each box
\* moved to another entry
UiSettings ==
    {<<"center", 10, "off">>, <<"top", 10, "off">>,
     <<"center", 7, "off">>, <<"center", 10, "light">>}

\* lines 174-192: the first element of the returned pair
RECURSIVE SeenStems(_, _)
SeenStems(files, n) ==
    IF n = 0 THEN {}
    ELSE LET stem == Stem(files[n].name)
         IN  IF PatternMatch(stem) THEN SeenStems(files, n - 1) \cup {stem}
             ELSE SeenStems(files, n - 1)

validate_template_names(files) ==
    IF files = <<>> THEN TRUE
    ELSE ~ \E i \in 1 .. Len(files) :
            LET stem == Stem(files[i].name)
            IN  \/ ~PatternMatch(stem)
                \/ stem \in SeenStems(files, i - 1)

\* lines 207-218: one pair of the double loop, item-major order
Pairing(items, templates, k) ==
    LET item     == items[((k - 1) \div Len(templates)) + 1]
        template == templates[((k - 1) % Len(templates)) + 1]
        is_png   == Lower(Suffix(template.name)) = ".png"
    IN  [item |-> item, template |-> template,
         mode |-> IF is_png THEN "frame" ELSE "normal",
         valid |-> has_useful_alpha(ensure_rgba(item.img)) \/ is_png]

IsValidCombination(c) == c.valid

\* lines 195-228; of_items and of_templates remember the arguments
analyze_combinations(items, templates) ==
    LET all == [k \in 1 .. Len(items) * Len(templates) |->
                    Pairing(items, templates, k)]
        valid_combinations == SelectSeq(all, IsValidCombination)
    IN  [valid_combinations |-> valid_combinations,
         summary |-> [valid |-> Len(valid_combinations),
                      invalid |-> Len(all) - Len(valid_combinations)],
         of_items |-> items, of_templates |-> templates]

\* lines 312-317
FileSig(items, templates) ==
    <<[i \in 1 .. Len(items) |-> items[i].name],
      [i \in 1 .. Len(templates) |-> templates[i].name],
      Len(items), Len(templates)>>

\* lines 311-324: file-change detection
Analysed(s, items, templates) ==
    IF items # <<>> /\ templates # <<>> /\ validate_template_names(templates)
    THEN IF s.last_file_sig # FileSig(items, templates) \/ s.cached_analysis = None
         THEN [s EXCEPT !.cached_analysis =
                            Some(analyze_combinations(items, templates)),
                        !.last_file_sig = FileSig(items, templates),
                        !.needs_preview_regen = TRUE]
         ELSE s
    ELSE s

\* lines 345-375: the three select boxes and the settings-change detection
WithSettings(s, anchor, ratio, preset) ==
    LET set == [s EXCEPT !.anchor = anchor, !.resize_ratio = ratio,
                         !.shadow_preset = preset]
        current_settings_sig == <<anchor, ratio, preset>>
    IN  IF set.last_settings_sig # current_settings_sig
        THEN [set EXCEPT !.needs_preview_regen = TRUE,
                         !.last_settings_sig = current_settings_sig]
        ELSE set

\* lines 430-441: the options of one composition of the batch
BatchOpts(s, c) ==
    LET composition_mode ==
            IF Lower(Suffix(c.template.name)) = ".png" THEN "frame" ELSE "normal"
    IN  [anchor |-> s.anchor, resize_ratio |-> s.resize_ratio,
         shadow_preset |-> IF composition_mode = "normal" THEN s.shadow_preset
                           ELSE "off",
         out_format |-> OUTPUT_FORMAT, quality |-> JPEG_QUALITY,
         composition_mode |-> composition_mode]

\* lines 443-450: the entry written for a composition that returned
ZipEntry(s, c, i) ==
    LET o == BatchOpts(s, c)
        e == IF Upper(o.out_format) = "JPEG" THEN "jpg" ELSE "png"
    IN  [filename |-> <<Stem(c.item.name), "_C_", Stem(c.template.name), ".", e>>,
         item |-> c.item, template |-> c.template, opts |-> o, index |-> i]

\* faulty variant: the first exception ends the loop
RECURSIVE ZipLoop_abort(_, _, _, _, _)
ZipLoop_abort(s, combinations, fails, i, acc) ==
    IF i > Len(combinations) \/ i \in fails THEN acc
    ELSE ZipLoop_abort(s, combinations, fails, i + 1,
            [entries |-> Append(acc.entries, ZipEntry(s, combinations[i], i)),
             count |-> acc.count + 1])

\* lines 422-452: the loop over valid_combinations from its i-th element on;
\* the compositions whose index is in fails raise an exception
RECURSIVE ZipLoop(_, _, _, _, _)
ZipLoop(s, combinations, fails, i, acc) ==
    IF i > Len(combinations) THEN acc
    ELSE ZipLoop(s, combinations, fails, i + 1,
            IF i \in fails THEN acc
            ELSE [entries |-> Append(acc.entries, ZipEntry(s, combinations[i], i)),
                  count |-> acc.count + 1])

\* lines 388-414: the loop over the first MAX_PREVIEW_COUNT combinations
RECURSIVE PreviewLoop(_, _, _, _, _)
PreviewLoop(s, combinations, fails, i, acc) ==
    IF i > Min(Len(combinations), MAX_PREVIEW_COUNT) THEN acc
    ELSE PreviewLoop(s, combinations, fails, i + 1,
            IF i \in fails THEN acc
            ELSE [list |-> Append(acc.list,
                              [item |-> combinations[i].item,
                               template |-> combinations[i].template,
                               opts |-> [BatchOpts(s, combinations[i])
                                            EXCEPT !.out_format = "PNG"]]),
                  info |-> Append(acc.info, Stem(combinations[i].template.name))])

\* lines 377-458: regeneration of the previews and of the ZIP
Regenerated(s, items, templates, fails) ==
    IF /\ items # <<>> /\ templates # <<>> /\ validate_template_names(templates)
       /\ s.cached_analysis # None
       /\ s.needs_preview_regen
    THEN LET analysis == s.cached_analysis[1]
             valid_combinations == analysis.valid_combinations
             previews == PreviewLoop(s, valid_combinations, fails, 1,
                                     [list |-> <<>>, info |-> <<>>])
             zip == ZipLoop(s, valid_combinations, fails, 1,
                            [entries |-> <<>>, count |-> 0])
         IN  [s EXCEPT
                !.preview_list = previews.list,
                !.preview_info = previews.info,
                !.zip_cache =
                    IF valid_combinations # <<>>
                    THEN Some([data |-> zip.entries,
                               success_count |-> zip.count,
                               failed_count |-> Len(valid_combinations) - zip.count,
                               of_combinations |-> valid_combinations,
                               of_fails |-> fails \cap (1 .. Len(valid_combinations)),
                               of_items |-> analysis.of_items,
                               of_templates |-> analysis.of_templates,
                               of_settings |-> <<s.anchor, s.resize_ratio,
                                                 s.shadow_preset>>])
                    ELSE None,
                !.needs_preview_regen = FALSE]
    ELSE s

\* the number of compositions the ZIP loop of this run attempts
Compositions(s, items, templates) ==
    IF /\ items # <<>> /\ templates # <<>> /\ validate_template_names(templates)
       /\ s.cached_analysis # None
       /\ s.needs_preview_regen
    THEN Len(s.cached_analysis[1].valid_combinations)
    ELSE 0

\* lines 494-517: the download section
DownloadSection(s) ==
    [zip |-> s.zip_cache,
     button |-> s.zip_cache # None /\ s.zip_cache[1].success_count > 0]

\* lines 251-524 when no clear button is pressed: one run of the script with
\* the uploaders holding items and templates and the select boxes showing
\* anchor, ratio and preset
Run(items, templates, anchor, ratio, preset) ==
    /\ LET set == WithSettings(Analysed(ss, items, templates),
                               anchor, ratio, preset)
       IN  \E fails \in SUBSET (1 .. Compositions(set, items, templates)) :
              LET s == Regenerated(set, items, templates, fails)
              IN  /\ ss' = s
                  /\ shown' = DownloadSection(s)
    /\ item_files' = items
    /\ template_files' = templates
    /\ rerun_pending' = FALSE
    /\ UNCHANGED composeVars

RemoveAt(files, i) == SubSeq(files, 1, i - 1) \o SubSeq(files, i + 1, Len(files))

\* a file is dropped on the item uploader
AddItem ==
    /\ ~rerun_pending
    /\ Len(item_files) < MaxItems
    /\ \E f \in ItemFiles :
          Run(Append(item_files, f), template_files,
              ss.anchor, ss.resize_ratio, ss.shadow_preset)

\* a file is removed from the item uploader with its own remove button
RemoveItem ==
    /\ ~rerun_pending
    /\ \E i \in 1 .. Len(item_files) :
          Run(RemoveAt(item_files, i), template_files,
              ss.anchor, ss.resize_ratio, ss.shadow_preset)

AddTemplate ==
    /\ ~rerun_pending
    /\ Len(template_files) < MaxTemplates
    /\ \E f \in TemplateFiles :
          Run(item_files, Append(template_files, f),
              ss.anchor, ss.resize_ratio, ss.shadow_preset)

RemoveTemplate ==
    /\ ~rerun_pending
    /\ \E i \in 1 .. Len(template_files) :
          Run(item_files, RemoveAt(template_files, i),
              ss.anchor, ss.resize_ratio, ss.shadow_preset)

\* one of the three select boxes is changed
ChangeAnchor ==
    /\ ~rerun_pending
    /\ \E u \in UiSettings :
          /\ u[1] # ss.anchor /\ u[2] = ss.resize_ratio /\ u[3] = ss.shadow_preset
          /\ Run(item_files, template_files, u[1], u[2], u[3])

ChangeRatio ==
    /\ ~rerun_pending
    /\ \E u \in UiSettings :
          /\ u[1] = ss.anchor /\ u[2] # ss.resize_ratio /\ u[3] = ss.shadow_preset
          /\ Run(item_files, template_files, u[1], u[2], u[3])

ChangePreset ==
    /\ ~rerun_pending
    /\ \E u \in UiSettings :
          /\ u[1] = ss.anchor /\ u[2] = ss.resize_ratio /\ u[3] # ss.shadow_preset
          /\ Run(item_files, template_files, u[1], u[2], u[3])

\* lines 265-277: the clear button of the items is pressed; the script stops
\* at st.rerun() and the uploader with the new key is empty
ClearItems ==
    /\ ~rerun_pending
    /\ item_files # <<>>
    /\ ss.item_uploader_key < MaxClears
    /\ ss' = [ss EXCEPT !.item_uploader_key = @ + 1,
                        !.preview_list = <<>>, !.preview_info = <<>>,
                        !.zip_cache = None, !.cached_analysis = None,
                        !.last_file_sig = None, !.needs_preview_regen = FALSE]
    /\ item_files' = <<>>
    /\ rerun_pending' = TRUE
    /\ UNCHANGED <<template_files, shown, composeVars>>

\* lines 289-301: the clear button of the templates
ClearTemplates ==
    /\ ~rerun_pending
    /\ template_files # <<>>
    /\ ss.template_uploader_key < MaxClears
    /\ ss' = [ss EXCEPT !.template_uploader_key = @ + 1,
                        !.preview_list = <<>>, !.preview_info = <<>>,
                        !.zip_cache = None, !.cached_analysis = None,
                        !.last_file_sig = None, !.needs_preview_regen = FALSE]
    /\ template_files' = <<>>
    /\ rerun_pending' = TRUE
    /\ UNCHANGED <<item_files, shown, composeVars>>

\* the run that st.rerun() starts
Rerun ==
    /\ rerun_pending
    /\ Run(item_files, template_files,
           ss.anchor, ss.resize_ratio, ss.shadow_preset)

\* the page after its first run: nothing uploaded, the select boxes at
\* their first entries
InitUI ==
    /\ ss = WithSettings(SessionDefaults, "center", 10, "off")
    /\ item_files = <<>>
    /\ template_files = <<>>
    /\ shown = DownloadSection(SessionDefaults)
    /\ rerun_pending = FALSE
    /\ item_img = NoImage
    /\ template_img = NoImage
    /\ opts = <<>>
    /\ pc = "idle"
    /\ item_rgba = NoImage
    /\ template_rgba = NoImage
    /\ pos = <<0, 0>>
    /\ item_has_alpha = FALSE
    /\ final_img = NoImage
    /\ painted = <<>>
    /\ out_img = NoImage
    /\ ext = ""

NextUI ==
    \/ AddItem
    \/ RemoveItem
    \/ AddTemplate
    \/ RemoveTemplate
    \/ ChangeAnchor
    \/ ChangeRatio
    \/ ChangePreset
    \/ ClearItems
    \/ ClearTemplates
    \/ Rerun

SpecUI == InitUI /\ [][NextUI]_vars

\* C11: the cached ZIP holds one entry for every valid combination whose
\* composition did not raise and none for one that raised, whichever
\* combinations raise; success_count is the number of entries and
\* success_count + failed_count is the number of valid combinations.
C11_BatchIsolation ==
    ss.zip_cache # None =>
        LET z     == ss.zip_cache[1]
            valid == z.of_combinations
            Written(i) == {k \in 1 .. Len(z.data) :
                              /\ z.data[k].index = i
                              /\ z.data[k].item = valid[i].item
                              /\ z.data[k].template = valid[i].template}
        IN  /\ z.success_count + z.failed_count = Len(valid)
            /\ z.success_count = Len(z.data)
            /\ z.failed_count = Cardinality(z.of_fails)
            /\ \A i \in 1 .. Len(valid) :
                  Cardinality(Written(i)) = IF i \in z.of_fails THEN 0 ELSE 1

\* C11 witness: the first of two compositions raised and the second one is
\* in the ZIP
C11_Witness ==
    /\ ss.zip_cache # None
    /\ Len(ss.zip_cache[1].of_combinations) = 2
    /\ ss.zip_cache[1].of_fails = {1}
    /\ ss.zip_cache[1].success_count = 1
    /\ ss.zip_cache[1].failed_count = 1
    /\ Len(ss.zip_cache[1].data) = 1
    /\ ss.zip_cache[1].data[1].index = 2

\* C12: when a run of the script has rendered the download button, the
\* cached ZIP it offers was made from the files the uploaders hold and from
\* the settings the select boxes show.
C12_NoStaleZip ==
    (~rerun_pending /\ shown.button) =>
        /\ shown.zip[1].of_items = item_files
        /\ shown.zip[1].of_templates = template_files
        /\ shown.zip[1].of_settings =
              <<ss.anchor, ss.resize_ratio, ss.shadow_preset>>

====
